---- MODULE Spec2Model ----
(***************************************************************************)
(* A model of the WhatsApp-to-webhook listener in its four revisions:      *)
(*   "js"    src/wa-listener.js                                            *)
(*   "part0" src/unnamed/part_000                                          *)
(*   "ts1"   src/wa-listener.ts, lines 1-141   (first program)             *)
(*   "ts2"   src/wa-listener.ts, lines 143-415 (alias-aware program)       *)
(*                                                                         *)
(* Strings are sequences of symbols.  A symbol is one character, except    *)
(* that the domain tags of a JID ("lid", "s.whatsapp.net", ...) are kept   *)
(* as one symbol each; "@" is always a symbol of its own.                  *)
(***************************************************************************)
EXTENDS Integers, Sequences, FiniteSets, Bags, TLC

VARIABLES
  rev,            \* which revision of the listener is running
  lidToPhoneMap,  \* ts2: the in-memory Map<string,string>
  disk,           \* the session directory: [creds, mapFile]
  socks,          \* every socket made so far, in order of construction
  starts,         \* start() invocations that have not yet made their socket
  timers,         \* pending setTimeout(() => start(), 3000) timers
  logouts,        \* part0: sockets whose `await sock.logout()` is pending
  handlers,       \* ts2: the bag of messages.upsert handler invocations in flight
  logs,           \* the appLogger lines of the latest step: those of error
                  \* level, and the "Loaded LID-to-phone mappings" line
  returned,       \* history: per alias, the first address resolveToPhone
                  \* returned for it from the cache or a heuristic
  saved,          \* history: the map that the latest successful write of
                  \* lid-phone-map.json serialized
  pinged,         \* the latest tick of a keepalive interval: whose interval
                  \* it was, whose socket it pinged, whether the ping went
                  \* out, and whether a ping of that interval has failed
  proc            \* the Node process: running or exited, its exit status,
                  \* whether a start() has failed, and who reported it (the
                  \* listener's logger, the runtime, or none)

vars == <<rev, lidToPhoneMap, disk, socks, starts, timers, logouts,
          handlers, logs, returned, saved, pinged, proc>>

(***************************************************************************)
(* JavaScript strings                                                      *)
(***************************************************************************)

\* undefined / null: a value that is no string of the model.
None == <<"undefined">>

\* JS truthiness of a string-or-undefined value.
Truthy(x) == x # None /\ x # <<>>

\* String.prototype.endsWith
EndsWith(s, suf) ==
  /\ Len(s) >= Len(suf)
  /\ SubSeq(s, Len(s) - Len(suf) + 1, Len(s)) = suf

\* index of the first "@" of s, 0 when there is none
FirstAt(s) ==
  IF \E i \in 1..Len(s) : s[i] = "@"
    THEN CHOOSE i \in 1..Len(s) : s[i] = "@" /\ \A j \in 1..(i-1) : s[j] # "@"
    ELSE 0

\* s.split('@')[0]
SplitAt0(s) == IF FirstAt(s) = 0 THEN s ELSE SubSeq(s, 1, FirstAt(s) - 1)

\* s.replace(/@.*$/, '') : everything from the first "@" on is removed
StripDomain(s) == IF FirstAt(s) = 0 THEN s ELSE SubSeq(s, 1, FirstAt(s) - 1)

IsSpace(c) == c \in {" ", "\n", "\t"}
IsDigit(c) == c \in {"0", "1", "2", "3", "4", "5", "6", "7", "8", "9"}
\* \w of a JS regular expression
IsWord(c)  == IsDigit(c) \/ c \in {"a", "b", "x", "y", "_"}

RECURSIVE TrimStart(_)
TrimStart(s) ==
  IF s # <<>> /\ IsSpace(Head(s)) THEN TrimStart(Tail(s)) ELSE s

RECURSIVE TrimEnd(_)
TrimEnd(s) ==
  IF s # <<>> /\ IsSpace(s[Len(s)]) THEN TrimEnd(SubSeq(s, 1, Len(s) - 1)) ELSE s

\* String.prototype.trim
Trim(s) == TrimEnd(TrimStart(s))

\* the number of digits of a login code, \d{6}
CodeLen == 6

\* \b between position i and i+1 of s (0 <= i <= Len(s))
WordBoundary(s, i) ==
  LET before == i >= 1 /\ IsWord(s[i])
      after  == i < Len(s) /\ IsWord(s[i + 1])
  IN  before # after

\* text.match(/\b(\d{6})\b/) is not null
HasCode_NoBoundary(s) ==
  \E i \in 1..(Len(s) - CodeLen + 1) :
     \A j \in i..(i + CodeLen - 1) : IsDigit(s[j])

HasCode(s) ==
  \E i \in 1..(Len(s) - CodeLen + 1) :
     /\ WordBoundary(s, i - 1)
     /\ \A j \in i..(i + CodeLen - 1) : IsDigit(s[j])
     /\ WordBoundary(s, i + CodeLen - 1)

(***************************************************************************)
(* JIDs                                                                    *)
(***************************************************************************)
LidTag       == <<"@", "lid">>
PhoneTag     == <<"@", "s.whatsapp.net">>
GroupTag     == <<"@", "g.us">>
BroadcastTag == <<"@", "broadcast">>
OtherTag     == <<"@", "c.us">>

Jid(local, tag) == local \o tag

(***************************************************************************)
(* The identity cache: lidToPhoneMap and lid-phone-map.json                *)
(***************************************************************************)

\* new Map(): a function whose domain is the set of keys present
EmptyMap == [k \in {} |-> <<>>]

MapHas(m, k) == k \in DOMAIN m

MapSet(m, k, v) == [x \in (DOMAIN m) \cup {k} |-> IF x = k THEN v ELSE m[x]]

\* the file is absent
NoFile == {<<None, None>>}

\* JSON.stringify(Object.fromEntries(map)): the text of a JSON object, as the
\* set of its "key": "value" members
Stringify_OneMember(m) ==
  {<<k, m[k]>> : k \in {x \in DOMAIN m : x = CHOOSE y \in DOMAIN m : TRUE}}

Stringify(m) == {<<k, m[k]>> : k \in DOMAIN m}

\* Object.entries(JSON.parse(text)).forEach(([lid, phone]) => map.set(lid, phone))
RECURSIVE SetAll(_, _)
SetAll(m, entries) ==
  IF entries = {} THEN m
  ELSE LET e == CHOOSE x \in entries : TRUE
       IN  SetAll(MapSet(m, e[1], e[2]), entries \ {e})

\* the startup load (the file is read only if it exists)
LoadLidMapping(m, file) == IF file = NoFile THEN m ELSE SetAll(m, file)

\* appLogger.info({ mappings }, 'Loaded LID-to-phone mappings')
LoadLog(file) == IF file = NoFile THEN {} ELSE {"info:loaded"}

\* no write of the file has succeeded yet
NoSave == [k \in {None} |-> None]

\* saveLidMapping(): writeOk is whether fs.writeFileSync succeeds
saveLidMapping(m, dsk, writeOk) ==
  IF writeOk
    THEN [disk |-> [dsk EXCEPT !.mapFile = Stringify(m)], logs |-> {}]
    ELSE [disk |-> dsk, logs |-> {"error:save-failed"}]

(***************************************************************************)
(* resolveToPhone                                                          *)
(***************************************************************************)

\* the result of one call: the value returned (None is null), the map and
\* the disk after it, the log lines, and the branch that returned
Res(ret, m, dsk, lg, via) ==
  [ret |-> ret, map |-> m, disk |-> dsk, logs |-> lg, via |-> via]

IsGroupJid(jid) == EndsWith(jid, GroupTag) \/ EndsWith(jid, BroadcastTag)

\* lidToPhoneMap.set(lid, phone); saveLidMapping(); return phone
CacheAndReturn_FailOnSave(lid, phone, m, dsk, writeOk, via) ==
  LET sv == saveLidMapping(MapSet(m, lid, phone), dsk, writeOk)
  IN  IF writeOk THEN Res(phone, MapSet(m, lid, phone), sv.disk, sv.logs, via)
                 ELSE Res(None, m, dsk, sv.logs, via)

CacheAndReturn_NoSave(lid, phone, m, dsk, writeOk, via) ==
  Res(phone, MapSet(m, lid, phone), dsk, {}, via)

CacheAndReturn(lid, phone, m, dsk, writeOk, via) ==
  LET m2 == MapSet(m, lid, phone)
      sv == saveLidMapping(m2, dsk, writeOk)
  IN  Res(phone, m2, sv.disk, sv.logs, via)

\* branch 2: jid.endsWith('@s.whatsapp.net')
ResolveDirect_NoLink(jid, msg, m, dsk, writeOk) ==
  IF ~Truthy(SplitAt0(jid)) THEN Res(None, m, dsk, {}, "empty")
                            ELSE Res(SplitAt0(jid), m, dsk, {}, "direct")

ResolveDirect_Overwrite(jid, msg, m, dsk, writeOk) ==
  LET phone     == SplitAt0(jid)
      quotedMsg == msg.ctxParticipant
      quotedLid == SplitAt0(quotedMsg)
  IN  IF ~Truthy(phone) THEN Res(None, m, dsk, {}, "empty")
      ELSE IF /\ Truthy(quotedMsg) /\ EndsWith(quotedMsg, LidTag)
              /\ Truthy(quotedLid)
        THEN LET r == CacheAndReturn(quotedLid, phone, m, dsk, writeOk, "linked")
             IN  [r EXCEPT !.via = "direct"]
        ELSE Res(phone, m, dsk, {}, "direct")

ResolveDirect(jid, msg, m, dsk, writeOk) ==
  LET phone     == SplitAt0(jid)
      quotedMsg == msg.ctxParticipant
      quotedLid == SplitAt0(quotedMsg)
  IN  IF ~Truthy(phone) THEN Res(None, m, dsk, {}, "empty")
      ELSE IF /\ Truthy(quotedMsg) /\ EndsWith(quotedMsg, LidTag)
              /\ Truthy(quotedLid) /\ ~MapHas(m, quotedLid)
        THEN LET r == CacheAndReturn(quotedLid, phone, m, dsk, writeOk, "linked")
             IN  [r EXCEPT !.via = "direct"]
        ELSE Res(phone, m, dsk, {}, "direct")

\* Method C: the quoted participant of the reply context
MethodC_CacheFallback(lid, msg, m, dsk, writeOk) ==
  LET c == msg.ctxParticipant
  IN  IF Truthy(c) /\ EndsWith(c, PhoneTag) /\ Truthy(SplitAt0(c))
        THEN CacheAndReturn(lid, SplitAt0(c), m, dsk, writeOk, "context")
        ELSE CacheAndReturn(lid, lid, m, dsk, writeOk, "fallback")

MethodC(lid, msg, m, dsk, writeOk) ==
  LET c == msg.ctxParticipant
  IN  IF Truthy(c) /\ EndsWith(c, PhoneTag) /\ Truthy(SplitAt0(c))
        THEN CacheAndReturn(lid, SplitAt0(c), m, dsk, writeOk, "context")
        ELSE Res(lid, m, dsk, {"error:unresolved-lid"}, "fallback")

\* Method B: msg.key.participant || msg.participant
MethodB(lid, msg, m, dsk, writeOk) ==
  LET c == IF Truthy(msg.keyParticipant) THEN msg.keyParticipant
                                         ELSE msg.participant
  IN  IF Truthy(c) /\ EndsWith(c, PhoneTag) /\ Truthy(SplitAt0(c))
        THEN CacheAndReturn(lid, SplitAt0(c), m, dsk, writeOk, "participant")
        ELSE MethodC(lid, msg, m, dsk, writeOk)

\* Method A: msg.key.remoteJidAlt
MethodA_ParticipantFirst(lid, msg, m, dsk, writeOk) ==
  LET c == msg.remoteJidAlt
      b == IF Truthy(msg.keyParticipant) THEN msg.keyParticipant
                                         ELSE msg.participant
  IN  IF Truthy(b) /\ EndsWith(b, PhoneTag) /\ Truthy(SplitAt0(b))
        THEN CacheAndReturn(lid, SplitAt0(b), m, dsk, writeOk, "participant")
      ELSE IF Truthy(c) /\ EndsWith(c, PhoneTag) /\ Truthy(SplitAt0(c))
        THEN CacheAndReturn(lid, SplitAt0(c), m, dsk, writeOk, "remoteJidAlt")
        ELSE MethodB(lid, msg, m, dsk, writeOk)

MethodA(lid, msg, m, dsk, writeOk) ==
  LET c == msg.remoteJidAlt
  IN  IF Truthy(c) /\ EndsWith(c, PhoneTag) /\ Truthy(SplitAt0(c))
        THEN CacheAndReturn(lid, SplitAt0(c), m, dsk, writeOk, "remoteJidAlt")
        ELSE MethodB(lid, msg, m, dsk, writeOk)

\* branch 3: jid.endsWith('@lid')
ResolveLid_SaveOnHit(jid, msg, m, dsk, writeOk) ==
  LET lid == SplitAt0(jid)
      sv  == saveLidMapping(m, dsk, writeOk)
  IN  IF ~Truthy(lid) THEN Res(None, m, dsk, {}, "empty")
      ELSE IF MapHas(m, lid)
        THEN IF ~Truthy(m[lid]) THEN Res(None, m, dsk, {}, "cache")
             ELSE Res(m[lid], m, sv.disk, sv.logs, "cache")
        ELSE MethodA(lid, msg, m, dsk, writeOk)

ResolveLid_NoCacheCheck(jid, msg, m, dsk, writeOk) ==
  LET lid == SplitAt0(jid)
  IN  IF ~Truthy(lid) THEN Res(None, m, dsk, {}, "empty")
      ELSE MethodA(lid, msg, m, dsk, writeOk)

ResolveLid(jid, msg, m, dsk, writeOk) ==
  LET lid == SplitAt0(jid)
  IN  IF ~Truthy(lid) THEN Res(None, m, dsk, {}, "empty")
      ELSE IF MapHas(m, lid)
        THEN IF ~Truthy(m[lid]) THEN Res(None, m, dsk, {}, "cache")
             ELSE Res(m[lid], m, dsk, {}, "cache")
        ELSE MethodA(lid, msg, m, dsk, writeOk)

resolveToPhone_GroupAsDirect(jid, msg, m, dsk, writeOk) ==
  IF EndsWith(jid, PhoneTag) \/ IsGroupJid(jid)
    THEN ResolveDirect(jid, msg, m, dsk, writeOk)
  ELSE IF EndsWith(jid, LidTag) THEN ResolveLid(jid, msg, m, dsk, writeOk)
  ELSE Res(None, m, dsk, {}, "unknown")

resolveToPhone(jid, msg, m, dsk, writeOk) ==
  IF IsGroupJid(jid) THEN Res(None, m, dsk, {}, "group")
  ELSE IF EndsWith(jid, PhoneTag) THEN ResolveDirect(jid, msg, m, dsk, writeOk)
  ELSE IF EndsWith(jid, LidTag) THEN ResolveLid(jid, msg, m, dsk, writeOk)
  ELSE Res(None, m, dsk, {}, "unknown")

(***************************************************************************)
(* Inbound messages                                                        *)
(***************************************************************************)

\* One record of a messages.upsert batch, with the fields the listener reads:
\*   hasMessage      msg.message is present
\*   remoteJid       msg.key.remoteJid
\*   remoteJidAlt    msg.key.remoteJidAlt
\*   keyParticipant  msg.key.participant
\*   participant     msg.participant
\*   conversation    msg.message.conversation
\*   extText         msg.message.extendedTextMessage?.text
\*   ctxParticipant  msg.message?.extendedTextMessage?.contextInfo?.participant
\*   caption         msg.message.documentWithCaptionMessage?.message
\*                      ?.documentMessage?.caption
Msg(jid, alt, kp, p, ctx, conv, ext, cap) ==
  [hasMessage |-> TRUE, remoteJid |-> jid, remoteJidAlt |-> alt,
   keyParticipant |-> kp, participant |-> p, ctxParticipant |-> ctx,
   conversation |-> conv, extText |-> ext, caption |-> cap]

\* a record without msg.message
Stub(jid, alt) ==
  [hasMessage |-> FALSE, remoteJid |-> jid, remoteJidAlt |-> alt,
   keyParticipant |-> None, participant |-> None, ctxParticipant |-> None,
   conversation |-> None, extText |-> None, caption |-> None]

NoMsg == Stub(None, None)

\* conversation ?? extendedTextMessage?.text ?? ...caption ?? ""
ExtractText(msg) ==
  IF msg.conversation # None THEN msg.conversation
  ELSE IF msg.extText # None THEN msg.extText
  ELSE IF msg.caption # None THEN msg.caption
  ELSE <<>>

\* the body of the webhook POST
NoReq == [from |-> None, body |-> None]

ForwardRequest(phone, text) ==
  [from |-> StripDomain(phone), body |-> Trim(text)]

(***************************************************************************)
(* Bounds of the model                                                     *)
(***************************************************************************)
MaxHandlers == 2   \* messages.upsert handler invocations in flight at once
MaxCloses   == 2   \* connection-close events in one run
MaxVer      == 1   \* creds.update events per set of credentials

(***************************************************************************)
(* Connection lifecycle: start() and the connection.update handler         *)
(***************************************************************************)
Revs   == {"js", "part0", "ts1", "ts2"}
TsRevs == {"ts1", "ts2"}

\* DisconnectReason.loggedOut
LoggedOut == 401
\* some other close code (restartRequired)
OtherCode == LoggedOut + 114

\* setTimeout(() => start(), 3000), in seconds
ReconnectDelay == 3
\* credentials are <<id, ver>>: id names the start() that created them, ver
\* counts their updates; NoCreds is the absence of creds.json
NoCreds == <<>>

\* lastDisconnect.error: each field is <<>> (undefined) or <<code>>;
\* NoError is lastDisconnect?.error being undefined
Codes    == {<<>>, <<LoggedOut>>, <<OtherCode>>}
NoError  == [output |-> <<>>, status |-> <<>>, code |-> <<>>]
ErrShapes == [output : Codes, status : Codes, code : Codes]
\* a logout, another close code, and a close without an error
SomeErrs  == {[NoError EXCEPT !.output = <<LoggedOut>>],
              [NoError EXCEPT !.output = <<OtherCode>>], NoError}

\* error?.output?.statusCode ?? error?.status ?? error?.code   (wa-listener.ts)
\* error?.output?.statusCode                          (wa-listener.js, part_000)
StatusCode(r, err) ==
  IF r \in TsRevs
    THEN IF err.output # <<>> THEN err.output
         ELSE IF err.status # <<>> THEN err.status
         ELSE err.code
    ELSE err.output

IsLoggedOut(r, err) == StatusCode(r, err) = <<LoggedOut>>

Live(i) == socks[i].status \in {"connecting", "open"}

NumClosed == Cardinality({i \in 1..Len(socks) : socks[i].status = "closed"})

\* the events start() binds a handler to, on the socket it has just made
Events == {"connection.update", "creds.update", "messages.upsert"}

\* setInterval(() => { try { sock.ws?.ping?.() } catch {} }, 20000), in
\* seconds; wa-listener.js sets no interval (0)
KeepaliveDelay == 20

KeepaliveEvery(r) == IF r = "js" THEN 0 ELSE KeepaliveDelay

\* no keepalive interval has ticked yet
NoPing == [timer |-> 0, target |-> 0, sent |-> FALSE, failed |-> FALSE]

\* the process runs, and no start() has failed
Running == [alive |-> TRUE, code |-> 0, failed |-> FALSE, logged |-> "none"]

\* a call of start(): it has yet to load the auth state
NewStart(parent, waited, closeCreds) ==
  [stage |-> "auth", parent |-> parent, waited |-> waited,
   closeCreds |-> closeCreds, loaded |-> NoCreds, auth |-> NoCreds]

\* the delay of the reconnect timer of a revision
TimerDelay_None(r) == 0

TimerDelay(r) == ReconnectDelay

NewTimer(parent, closeCreds) ==
  [parent |-> parent, remaining |-> TimerDelay(rev), waited |-> 0,
   closeCreds |-> closeCreds]

\* fs.rmSync(sessionDir, {recursive, force}); fs.mkdirSync(sessionDir, ...):
\* both calls are taken to succeed (the empty catch around them is for the
\* case that one throws)
ClearSession_KeepCreds(dsk) == [dsk EXCEPT !.mapFile = NoFile]

ClearSession(dsk) == [creds |-> NoCreds, mapFile |-> NoFile]

\* const { state, saveCreds } = await useMultiFileAuthState(sessionDir)
LoadAuth(s) ==
  /\ s \in starts /\ s.stage = "auth"
  /\ LET auth == IF disk.creds = NoCreds THEN <<Len(socks) + 1, 0>>
                                          ELSE disk.creds
     IN  starts' = (starts \ {s}) \cup
                   {[s EXCEPT !.stage = "version", !.loaded = disk.creds,
                              !.auth = auth]}
  /\ logs' = {}
  /\ UNCHANGED <<rev, lidToPhoneMap, disk, socks, timers, logouts,
                 handlers, returned, saved>>
  /\ UNCHANGED <<pinged, proc>>

\* await fetchLatestBaileysVersion(); const sock = makeWASocket({...});
\* the handlers are bound to the new socket
MakeSocket_Reuse(s) ==
  /\ s \in starts /\ s.stage = "version"
  /\ LET new == [status |-> "connecting", auth |-> s.auth, parent |-> s.parent,
                 waited |-> s.waited, closeCreds |-> s.closeCreds,
                 loaded |-> s.loaded, closedWith |-> "none",
                 on |-> Events, every |-> KeepaliveEvery(rev)]
     IN  socks' = IF socks = <<>> THEN <<new>>
                  ELSE [socks EXCEPT ![Len(socks)] = new]
  /\ starts' = starts \ {s}
  /\ logs' = {}
  /\ UNCHANGED <<rev, lidToPhoneMap, disk, timers, logouts, handlers, returned, saved>>
  /\ UNCHANGED <<pinged, proc>>

MakeSocket(s) ==
  /\ s \in starts /\ s.stage = "version"
  /\ socks' = Append(socks,
                 [status |-> "connecting", auth |-> s.auth, parent |-> s.parent,
                  waited |-> s.waited, closeCreds |-> s.closeCreds,
                  loaded |-> s.loaded, closedWith |-> "none",
                  on |-> Events, every |-> KeepaliveEvery(rev)])
  /\ starts' = starts \ {s}
  /\ logs' = {}
  /\ UNCHANGED <<rev, lidToPhoneMap, disk, timers, logouts, handlers, returned, saved>>
  /\ UNCHANGED <<pinged, proc>>

\* what the runtime does with a promise rejection that nothing handles: it
\* throws (the error is printed and the process ends with status 1), or it
\* prints a warning and goes on
Unhandled == {"throw", "warn"}

\* the process after a rejection that nothing handles
AfterUnhandled(mode, pending) ==
  IF mode = "throw"
    THEN [alive |-> FALSE, code |-> 1, failed |-> TRUE, logged |-> "runtime"]
    ELSE [alive |-> pending, code |-> 0, failed |-> TRUE, logged |-> "runtime"]

\* start() rejects: useMultiFileAuthState or fetchLatestBaileysVersion has
\* failed.  The first call of start() has the .catch of the last lines of
\* wa-listener.js (log, process.exit(1)) and of wa-listener.ts (log only; with
\* nothing else pending the process then ends with status 0), and none in
\* part_000; a start() called by the close handler or by the reconnect
\* timer has none in any revision.
StartFail(s, mode) ==
  /\ s \in starts
  /\ starts' = starts \ {s}
  /\ IF s.parent = 0 /\ rev = "js"
       THEN /\ proc' = [alive |-> FALSE, code |-> 1, failed |-> TRUE,
                        logged |-> "app"]
            /\ logs' = {"error:failed-to-start"}
     ELSE IF s.parent = 0 /\ rev \in TsRevs
       THEN /\ proc' = [alive |-> FALSE, code |-> 0, failed |-> TRUE,
                        logged |-> "app"]
            /\ logs' = {"error:failed-to-start"}
       ELSE /\ proc' = AfterUnhandled(mode, s.parent # 0)
            /\ logs' = {}
  /\ UNCHANGED <<rev, lidToPhoneMap, disk, socks, timers, logouts, handlers,
                 returned, saved, pinged>>

\* connection.update with connection === "open"
ConnOpen(i) ==
  /\ i \in 1..Len(socks) /\ socks[i].status = "connecting"
  /\ "connection.update" \in socks[i].on
  /\ socks' = [socks EXCEPT ![i].status = "open"]
  /\ logs' = {}
  /\ UNCHANGED <<rev, lidToPhoneMap, disk, starts, timers, logouts, handlers, returned, saved>>
  /\ UNCHANGED <<pinged, proc>>

\* creds.update: saveCreds writes the socket's credentials to creds.json
CredsUpdate(i) ==
  /\ i \in 1..Len(socks) /\ Live(i)
  /\ "creds.update" \in socks[i].on
  /\ socks[i].auth[2] < MaxVer
  /\ LET auth == <<socks[i].auth[1], socks[i].auth[2] + 1>>
     IN  /\ socks' = [socks EXCEPT ![i].auth = auth]
         /\ disk' = [disk EXCEPT !.creds = auth]
  /\ logs' = {}
  /\ UNCHANGED <<rev, lidToPhoneMap, starts, timers, logouts, handlers, returned, saved>>
  /\ UNCHANGED <<pinged, proc>>

\* connection.update with connection === "close"
ConnClose(i, err) ==
  /\ i \in 1..Len(socks) /\ Live(i)
  /\ "connection.update" \in socks[i].on
  /\ NumClosed < MaxCloses
  /\ LET out == IsLoggedOut(rev, err)
     IN
     /\ socks' = [socks EXCEPT ![i].status = "closed",
                     ![i].closedWith = IF out THEN "loggedOut" ELSE "other"]
     /\ IF rev = "js"
          THEN \* if (shouldReconnect) void start()
               /\ starts' = IF out THEN starts
                             ELSE starts \cup {NewStart(i, 0, disk.creds)}
               /\ logs' = {}
               /\ UNCHANGED <<disk, timers, logouts>>
        ELSE IF rev = "part0"
          THEN \* await sock.logout(); return start()  /  setTimeout
               /\ logouts' = IF out THEN logouts \cup {i} ELSE logouts
               /\ timers' = IF out THEN timers
                             ELSE timers \cup {NewTimer(i, disk.creds)}
               /\ logs' = IF out THEN {"error:logged-out"} ELSE {}
               /\ UNCHANGED <<disk, starts>>
          ELSE \* rmSync; mkdirSync; return start()  /  setTimeout
               /\ disk' = IF out THEN ClearSession(disk) ELSE disk
               /\ starts' = IF out
                              THEN starts \cup {NewStart(i, 0, disk.creds)}
                              ELSE starts
               /\ timers' = IF out THEN timers
                             ELSE timers \cup {NewTimer(i, disk.creds)}
               /\ logs' = IF out THEN {"error:logged-out"} ELSE {}
               /\ UNCHANGED logouts
  /\ UNCHANGED <<rev, lidToPhoneMap, handlers, returned, saved>>
  /\ UNCHANGED <<pinged, proc>>

\* part_000: the pending sock.logout() settles; start() runs only if it resolved
LogoutDone(i, ok) ==
  /\ i \in logouts
  /\ logouts' = logouts \ {i}
  /\ starts' = IF ok THEN starts \cup {NewStart(i, 0, disk.creds)}
                     ELSE starts
  /\ logs' = {}
  /\ UNCHANGED <<rev, lidToPhoneMap, disk, socks, timers, handlers, returned, saved>>
  /\ UNCHANGED <<pinged, proc>>

\* time passes, up to the next deadline of a pending timer
Tick ==
  /\ \E t \in timers : t.remaining > 0
  /\ LET d == CHOOSE d \in {t.remaining : t \in timers} \ {0} :
                 \A t \in timers : t.remaining > 0 => d <= t.remaining
     IN  timers' = {[t EXCEPT !.remaining = IF @ > d THEN @ - d ELSE 0,
                             !.waited = @ + d] : t \in timers}
  /\ logs' = {}
  /\ UNCHANGED <<rev, lidToPhoneMap, disk, socks, starts, logouts, handlers, returned, saved>>
  /\ UNCHANGED <<pinged, proc>>

TimerFire_Repeat(t) ==
  /\ t \in timers /\ t.remaining = 0
  /\ timers' = timers
  /\ starts' = starts \cup {NewStart(t.parent, t.waited, t.closeCreds)}
  /\ logs' = {}
  /\ UNCHANGED <<rev, lidToPhoneMap, disk, socks, logouts, handlers, returned, saved>>
  /\ UNCHANGED <<pinged, proc>>

TimerFire_NoStart(t) ==
  /\ t \in timers /\ t.remaining = 0
  /\ timers' = timers \ {t}
  /\ logs' = {}
  /\ UNCHANGED <<rev, lidToPhoneMap, disk, socks, starts, logouts, handlers,
                 returned, saved>>
  /\ UNCHANGED <<pinged, proc>>

\* the reconnect timer fires: () => start()
TimerFire(t) ==
  /\ t \in timers /\ t.remaining = 0
  /\ timers' = timers \ {t}
  /\ starts' = starts \cup {NewStart(t.parent, t.waited, t.closeCreds)}
  /\ logs' = {}
  /\ UNCHANGED <<rev, lidToPhoneMap, disk, socks, logouts, handlers, returned, saved>>
  /\ UNCHANGED <<pinged, proc>>

\* a tick of the keepalive interval that the start() of socket i has set:
\* sock.ws.ping() on that socket, any exception swallowed.  pingOk is whether
\* ping() gets the frame out; on a closed socket it never does.
KeepaliveTick_Current(i, pingOk) ==
  /\ i \in 1..Len(socks) /\ socks[i].every > 0
  /\ LET cur  == Len(socks)
         sent == Live(cur) /\ pingOk
     IN  pinged' = [timer |-> i, target |-> cur, sent |-> sent,
                    failed |-> (pinged.timer = i /\ pinged.failed)
                                 \/ (Live(cur) /\ ~sent)]
  /\ logs' = {}
  /\ UNCHANGED <<rev, lidToPhoneMap, disk, socks, starts, timers, logouts,
                 handlers, returned, saved, proc>>

KeepaliveTick_StopOnFailure(i, pingOk) ==
  /\ i \in 1..Len(socks) /\ socks[i].every > 0
  /\ LET sent == Live(i) /\ pingOk
     IN  /\ pinged' = [timer |-> i, target |-> i, sent |-> sent,
                        failed |-> (pinged.timer = i /\ pinged.failed)
                                     \/ (Live(i) /\ ~sent)]
         /\ socks' = IF Live(i) /\ ~sent THEN [socks EXCEPT ![i].every = 0]
                                          ELSE socks
  /\ logs' = {}
  /\ UNCHANGED <<rev, lidToPhoneMap, disk, starts, timers, logouts,
                 handlers, returned, saved, proc>>

KeepaliveTick(i, pingOk) ==
  /\ i \in 1..Len(socks) /\ socks[i].every > 0
  /\ LET sent == Live(i) /\ pingOk
     IN  pinged' = [timer |-> i, target |-> i, sent |-> sent,
                    failed |-> (pinged.timer = i /\ pinged.failed)
                                 \/ (Live(i) /\ ~sent)]
  /\ logs' = {}
  /\ UNCHANGED <<rev, lidToPhoneMap, disk, socks, starts, timers, logouts,
                 handlers, returned, saved, proc>>

(***************************************************************************)
(* Message intake: the messages.upsert handler of the alias-aware listener *)
(*                                                                         *)
(* The handler is an async loop over event.messages.  It gives up control  *)
(* at `await resolveToPhone(...)` (whose body runs to its return without   *)
(* an await of its own) and at `await axios.post(...)`.  One invocation is *)
(*   [pc, msg, phone, req]                                                 *)
(* with pc "loop" (about to look at the next message), "skipped" (at the   *)
(* `continue` of a message without content or sender), "resolved" (parked  *)
(* at the first await, phone holding the result) or "posting" (parked at   *)
(* the second, req being the request in flight).  A batch is a sequence of *)
(* any length: its next message, or its end, is chosen when the loop gets  *)
(* there.  The loop is also cut at the end of                              *)
(* every iteration: the part of an iteration that runs after its last      *)
(* await writes no shared state, so the cut adds no behaviour.             *)
(***************************************************************************)
NewHandler == [pc |-> "loop", msg |-> NoMsg, phone |-> None, req |-> NoReq]

One(h) == SetToBag({h})

\* the handler invocation h goes on as h2
Becomes(h, h2) == (handlers (-) One(h)) (+) One(h2)

\* the end of one iteration of the for loop of h: event.messages holds
\* another message, or the invocation ends
NextIteration(h) ==
  \/ handlers' = Becomes(h, NewHandler)
  \/ handlers' = handlers (-) One(h)

\* which results of resolveToPhone for an alias come from the cache or a
\* heuristic (and not from the unresolved-alias fallback)
Heuristics == {"cache", "remoteJidAlt", "participant", "context"}

\* sock.ev.on("messages.upsert", ...) is called with a batch of messages
Upsert(limit) ==
  /\ rev = "ts2"
  /\ \E i \in 1..Len(socks) :
        socks[i].status = "open" /\ "messages.upsert" \in socks[i].on
  /\ BagCardinality(handlers) < limit
  /\ handlers' = handlers (+) One(NewHandler)
  /\ logs' = {}
  /\ UNCHANGED <<rev, lidToPhoneMap, disk, socks, starts, timers, logouts,
                 returned, saved>>
  /\ UNCHANGED <<pinged, proc>>

\* the loop looks at the next message: lines 356-362, up to the first await
Iterate(h, msg, writeOk) ==
  /\ h.pc = "loop"
  /\ LET jid == msg.remoteJid
     IN
     IF ~msg.hasMessage \/ ~Truthy(jid)
       THEN /\ handlers' = Becomes(h, [h EXCEPT !.pc = "skipped", !.msg = msg])
            /\ logs' = {}
            /\ UNCHANGED <<lidToPhoneMap, disk, returned, saved>>
       ELSE LET r   == resolveToPhone(jid, msg, lidToPhoneMap, disk, writeOk)
                lid == SplitAt0(jid)
            IN
            /\ lidToPhoneMap' = r.map
            /\ disk' = r.disk
            /\ logs' = r.logs
            /\ handlers' = Becomes(h, [h EXCEPT !.pc = "resolved",
                                                !.msg = msg, !.phone = r.ret])
            /\ returned' =
                 IF /\ EndsWith(jid, LidTag) /\ r.via \in Heuristics
                    /\ r.ret # None /\ ~MapHas(returned, lid)
                   THEN MapSet(returned, lid, r.ret)
                   ELSE returned
            /\ saved' =
                 IF r.map # lidToPhoneMap /\ "error:save-failed" \notin r.logs
                   THEN r.map ELSE saved
  /\ UNCHANGED <<rev, socks, starts, timers, logouts>>
  /\ UNCHANGED <<pinged, proc>>

\* the loop goes on after `await resolveToPhone`: lines 363-396, up to the
\* second await or to the end of the iteration
Resume(h) ==
  /\ h.pc = "resolved"
  /\ LET text == ExtractText(h.msg)
     IN
     IF ~Truthy(h.phone) \/ ~Truthy(Trim(text)) \/ ~HasCode(text)
       THEN NextIteration(h)
       ELSE handlers' = Becomes(h, [h EXCEPT
                                      !.pc = "posting",
                                      !.req = ForwardRequest(h.phone, text)])
  /\ logs' = {}
  /\ UNCHANGED <<rev, lidToPhoneMap, disk, socks, starts, timers, logouts,
                 returned, saved>>
  /\ UNCHANGED <<pinged, proc>>

\* the `continue` of line 356 or 359
Continue(h) ==
  /\ h.pc = "skipped"
  /\ NextIteration(h)
  /\ logs' = {}
  /\ UNCHANGED <<rev, lidToPhoneMap, disk, socks, starts, timers, logouts,
                 returned, saved>>
  /\ UNCHANGED <<pinged, proc>>

\* axios.post settles: lines 398-407
PostDone_Retry(h, ok) ==
  /\ h.pc = "posting"
  /\ IF ok THEN NextIteration(h) ELSE handlers' = Becomes(h, h)
  /\ logs' = IF ok THEN {} ELSE {"error:forward-failed"}
  /\ UNCHANGED <<rev, lidToPhoneMap, disk, socks, starts, timers, logouts,
                 returned, saved>>
  /\ UNCHANGED <<pinged, proc>>

PostDone(h, ok) ==
  /\ h.pc = "posting"
  /\ NextIteration(h)
  /\ logs' = IF ok THEN {} ELSE {"error:forward-failed"}
  /\ UNCHANGED <<rev, lidToPhoneMap, disk, socks, starts, timers, logouts,
                 returned, saved>>
  /\ UNCHANGED <<pinged, proc>>

\* a call of saveLidMapping() on the map as it is
SaveStep(writeOk) ==
  /\ rev = "ts2"
  /\ LET sv == saveLidMapping(lidToPhoneMap, disk, writeOk)
     IN  /\ disk' = sv.disk
         /\ logs' = sv.logs
  /\ saved' = IF writeOk THEN lidToPhoneMap ELSE saved
  /\ UNCHANGED <<rev, lidToPhoneMap, socks, starts, timers, logouts, handlers,
                 returned>>
  /\ UNCHANGED <<pinged, proc>>

\* the process is started again: the module creates an empty map and loads
\* lid-phone-map.json into it, if the file exists
Restart ==
  /\ rev = "ts2"
  /\ lidToPhoneMap' = LoadLidMapping(EmptyMap, disk.mapFile)
  /\ logs' = LoadLog(disk.mapFile)
  /\ socks' = <<>>
  /\ starts' = {NewStart(0, 0, NoCreds)}
  /\ timers' = {}
  /\ logouts' = {}
  /\ handlers' = EmptyBag
  /\ UNCHANGED <<rev, disk, returned, saved>>
  /\ UNCHANGED <<pinged, proc>>

(***************************************************************************)
(* Inputs                                                                  *)
(***************************************************************************)
A7 == <<"7">>
A8 == <<"8">>
P1 == <<"1">>
P2 == <<"2">>

CodeText  == <<"4", "8", "2", "9", "1", "3">>
PlainText == <<"a", "b">>

\* a text message from jid with the three fallback fields alt, p, ctx
TextMsg(jid, alt, p, ctx, text) ==
  Msg(jid, alt, None, p, ctx, text, None, None)

\* the messages of the full listener's runs
SpecMsgs ==
  { TextMsg(Jid(A7, LidTag), Jid(P1, PhoneTag), None, None, CodeText),
    TextMsg(Jid(A7, LidTag), None, Jid(P2, PhoneTag), None, CodeText),
    TextMsg(Jid(A7, LidTag), None, None, None, CodeText),
    TextMsg(Jid(P2, PhoneTag), None, None, Jid(A7, LidTag), PlainText),
    TextMsg(Jid(P1, PhoneTag), None, None, Jid(A8, LidTag), CodeText),
    Stub(Jid(A8, LidTag), Jid(P1, PhoneTag)) }

\* lid-phone-map.json as an earlier run of the listener may have left it
SpecFiles == {Stringify(MapSet(EmptyMap, A8, P2))}

\* the addresses of the candidate fields, one per field
P3 == <<"3">>
P4 == <<"4">>

\* remoteJid: aliases, direct senders, groups and broadcasts, an unknown tag,
\* identifiers without a local part, and no identifier at all
PipeJids ==
  { Jid(A7, LidTag), Jid(<<>>, LidTag), Jid(P1, PhoneTag), Jid(<<>>, PhoneTag),
    Jid(A7, GroupTag), Jid(A7, BroadcastTag), Jid(Jid(P1, PhoneTag), GroupTag),
    Jid(A7, OtherTag), <<>>, None }

PipeAlts    == {None, Jid(P1, PhoneTag), Jid(A8, LidTag), Jid(<<>>, PhoneTag)}
PipeKeyPart == {None, Jid(P2, PhoneTag), Jid(A8, LidTag)}
PipePart    == {None, Jid(P3, PhoneTag)}
PipeCtx     == {None, Jid(P4, PhoneTag), Jid(<<>>, PhoneTag),
                Jid(A7, LidTag), Jid(A8, LidTag)}

\* message texts around the 6-digit pattern
PipeTexts ==
  { <<>>, <<" ">>, <<" ", "\n">>, CodeText, PlainText,
    <<" ">> \o CodeText \o <<"\n">>,
    CodeText \o <<"7">>,
    <<"4", "8", "2", "9", "1">>,
    <<"a">> \o CodeText,
    CodeText \o <<"_">>,
    <<"x", " ">> \o CodeText \o <<",", "y">>,
    <<"4", "8", "2", " ", "9", "1", "3">>,
    <<"1">> \o CodeText \o <<" ", "a", " ">> \o CodeText \o <<".">> }

\* every combination of the identity fields, with a login code as text;
\* every combination of the three text fields, from an alias and from a
\* direct sender; and records without content
PipeMsgs ==
  { Msg(jid, alt, kp, p, ctx, CodeText, None, None) :
      jid \in PipeJids, alt \in PipeAlts, kp \in PipeKeyPart,
      p \in PipePart, ctx \in PipeCtx }
  \cup
  { Msg(jid, Jid(P1, PhoneTag), None, None, None, conv, ext, cap) :
      jid \in {Jid(A7, LidTag), Jid(P2, PhoneTag)},
      conv \in {None} \cup PipeTexts,
      ext \in {None, <<>>, CodeText},
      cap \in {None, <<" ">> \o CodeText} }
  \cup
  { Stub(jid, Jid(P1, PhoneTag)) : jid \in {Jid(A7, LidTag), None} }

\* one message per branch of the resolver and per way of taking it
FrameMsgs ==
  { Msg(jid, alt, None, None, ctx, CodeText, None, None) :
      jid \in PipeJids,
      alt \in {None, Jid(P1, PhoneTag)},
      ctx \in {None, Jid(P4, PhoneTag), Jid(A7, LidTag), Jid(<<>>, LidTag)} }
  \cup {Stub(Jid(A7, LidTag), Jid(P1, PhoneTag))}

\* lid-phone-map.json as an earlier run, or an operator, may have left it:
\* absent, with an address for alias 7, with an empty address, and with an
\* address that still carries its domain tag
PipeFiles ==
  { NoFile,
    Stringify(MapSet(EmptyMap, A7, P2)),
    Stringify(MapSet(EmptyMap, A7, <<>>)),
    Stringify(MapSet(EmptyMap, A7, Jid(P2, PhoneTag))) }

\* identity maps for the round trip through lid-phone-map.json
RTKeys == {A7, A8, <<"7", "8">>}
RTVals == {P1, P2, <<"1", "2">>}
RTMaps == UNION {[ks -> RTVals] : ks \in SUBSET RTKeys}

\* creds.json as an earlier run may have left it
NoOldCreds == {NoCreds}
OldCreds   == {<<0, 0>>}

(***************************************************************************)
(* Specifications                                                          *)
(***************************************************************************)
\* module load (lines 164-180) followed by the call start() of line 413
InitOf(revs, creds, files) ==
  /\ rev \in revs
  /\ disk \in [creds : creds, mapFile : files]
  /\ lidToPhoneMap = LoadLidMapping(EmptyMap, disk.mapFile)
  /\ socks = <<>>
  /\ starts = {NewStart(0, 0, NoCreds)}
  /\ timers = {}
  /\ logouts = {}
  /\ handlers = EmptyBag
  /\ logs = LoadLog(disk.mapFile)
  /\ returned = EmptyMap
  /\ saved = NoSave
  /\ pinged = NoPing
  /\ proc = Running

StartStep == \E s \in starts : LoadAuth(s) \/ MakeSocket(s)

OpenStep == \E i \in 1..Len(socks) : ConnOpen(i)

CloseStep(errs) == \E i \in 1..Len(socks), err \in errs : ConnClose(i, err)

CredsStep == \E i \in 1..Len(socks) : CredsUpdate(i)

LogoutStep == \E i \in logouts, ok \in BOOLEAN : LogoutDone(i, ok)

TimerStep == Tick \/ \E t \in timers : TimerFire(t)

IntakeStep(msgs, writes) ==
  \E h \in BagToSet(handlers) :
     \/ \E msg \in msgs, writeOk \in writes : Iterate(h, msg, writeOk)
     \/ Continue(h)
     \/ Resume(h)
     \/ \E ok \in BOOLEAN : PostDone(h, ok)

\* the alias-aware listener: its identity cache under message batches,
\* closes, logout resets and reconnects
Init == InitOf({"ts2"}, OldCreds, SpecFiles)

Next ==
  \/ StartStep
  \/ OpenStep
  \/ CloseStep(SomeErrs)
  \/ TimerStep
  \/ Upsert(MaxHandlers)
  \/ IntakeStep(SpecMsgs, BOOLEAN)

Spec == Init /\ [][Next]_vars

\* the message pipeline of the alias-aware listener, one message at a time,
\* over every shape of message and every content of the cache
InitPipe == InitOf({"ts2"}, OldCreds, PipeFiles)

NextPipe ==
  \/ StartStep
  \/ OpenStep
  \/ Upsert(1)
  \/ IntakeStep(PipeMsgs, {TRUE})

SpecPipe == InitPipe /\ [][NextPipe]_vars

\* the resolver under write failures, one message at a time
NextFrame ==
  \/ StartStep
  \/ OpenStep
  \/ Upsert(1)
  \/ IntakeStep(FrameMsgs, BOOLEAN)

SpecFrame == InitPipe /\ [][NextFrame]_vars

\* the identity cache through saves and restarts, from every bounded map
InitRT ==
  /\ rev = "ts2"
  /\ lidToPhoneMap \in RTMaps
  /\ disk = [creds |-> NoCreds, mapFile |-> NoFile]
  /\ socks = <<>>
  /\ starts = {NewStart(0, 0, NoCreds)}
  /\ timers = {}
  /\ logouts = {}
  /\ handlers = EmptyBag
  /\ logs = {}
  /\ returned = EmptyMap
  /\ saved = NoSave
  /\ pinged = NoPing
  /\ proc = Running

NextRT ==
  \/ \E writeOk \in BOOLEAN : SaveStep(writeOk)
  \/ Restart

SpecRT == InitRT /\ [][NextRT]_vars

\* the connection lifecycle of every revision, with the credentials
InitLife == InitOf(Revs, NoOldCreds \cup OldCreds, {NoFile})

NextLife ==
  \/ StartStep
  \/ OpenStep
  \/ CloseStep(ErrShapes)
  \/ CredsStep
  \/ LogoutStep
  \/ TimerStep

SpecLife == InitLife /\ [][NextLife]_vars

\* the same lifecycle with the ticks of the keepalive intervals
AliveStep == \E i \in 1..Len(socks), pingOk \in BOOLEAN : KeepaliveTick(i, pingOk)

NextAlive ==
  \/ StartStep
  \/ OpenStep
  \/ CloseStep(SomeErrs)
  \/ CredsStep
  \/ LogoutStep
  \/ TimerStep
  \/ AliveStep

SpecAlive == InitLife /\ [][NextAlive]_vars

\* the lifecycle with start() failures, as long as the process is alive
FailStep == \E s \in starts, mode \in Unhandled : StartFail(s, mode)

BootStart  == proc.alive /\ StartStep
BootFail   == proc.alive /\ FailStep
BootOpen   == proc.alive /\ OpenStep
BootClose  == proc.alive /\ CloseStep(SomeErrs)
BootCreds  == proc.alive /\ CredsStep
BootLogout == proc.alive /\ LogoutStep
BootTimer  == proc.alive /\ TimerStep

NextBoot ==
  \/ BootStart
  \/ BootFail
  \/ BootOpen
  \/ BootClose
  \/ BootCreds
  \/ BootLogout
  \/ BootTimer

SpecBoot == InitLife /\ [][NextBoot]_vars

\* the same, with what the event loop guarantees: a pending await of start()
\* or of sock.logout() settles, and a pending timer fires
FairLife ==
  /\ SpecLife
  /\ WF_vars(StartStep)
  /\ WF_vars(LogoutStep)
  /\ WF_vars(TimerStep)

(***************************************************************************)
(* Claims about the connection lifecycle                                   *)
(***************************************************************************)
Socks == 1..Len(socks)

\* the sockets made by the start() that the close of socket p led to
ChildrenOf(p) == {i \in Socks : socks[i].parent = p}

ClosedWith(p, kind) == p \in Socks /\ socks[p].closedWith = kind

SockIds == 1..(MaxCloses + 1)

Followed(p) == <>(ChildrenOf(p) # {})

WasLoggedOut == \E p \in Socks : ClosedWith(p, "loggedOut")

\* a socket was made after a close (a reconnect or a reset took place)
Reconnected == \E p \in Socks : socks[p].status = "closed" /\ ChildrenOf(p) # {}

\* C1: no step of the alias-aware listener (a resolution, a close, a logout
\* reset, a reconnect) removes an entry of lidToPhoneMap or changes its value.
C1_EntriesArePermanent ==
  [][\A k \in DOMAIN lidToPhoneMap :
        /\ k \in DOMAIN lidToPhoneMap'
        /\ lidToPhoneMap'[k] = lidToPhoneMap[k]]_vars

\* after a logout reset and a reconnect the map still holds alias 7, and a
\* reply that quotes alias 7 from another address was resolved without
\* relinking it
C1_Witness ==
  /\ WasLoggedOut /\ Reconnected
  /\ MapHas(lidToPhoneMap, A7)
  /\ \E h \in BagToSet(handlers) :
       /\ h.pc = "resolved"
       /\ h.msg.ctxParticipant = Jid(A7, LidTag)
       /\ h.phone # None /\ h.phone # lidToPhoneMap[A7]

\* the handler invocations that this step moved to a new position
Arrived(h) == CopiesIn(h, handlers') > CopiesIn(h, handlers)

\* C2: once resolveToPhone has returned the address C for alias A (from the
\* cache or from a heuristic), every later call for A@lid returns C.
C2_FirstResolutionWins ==
  [][\A lid \in DOMAIN returned :
       \A h \in BagToSet(handlers') :
          (/\ Arrived(h) /\ h.pc = "resolved"
           /\ h.msg.remoteJid = Jid(lid, LidTag))
             => h.phone = returned[lid]]_vars

\* a call for alias 7 returned the address it had returned before although
\* the message carried a qualifying candidate with another address
C2_Witness ==
  /\ MapHas(returned, A7)
  /\ \E h \in BagToSet(handlers) :
       /\ h.pc = "resolved"
       /\ h.msg.remoteJid = Jid(A7, LidTag)
       /\ h.phone = returned[A7]
       /\ \/ /\ EndsWith(h.msg.remoteJidAlt, PhoneTag)
             /\ SplitAt0(h.msg.remoteJidAlt) # h.phone
          \/ /\ EndsWith(h.msg.participant, PhoneTag)
             /\ SplitAt0(h.msg.participant) # h.phone

\* C9: a step that adds an entry to lidToPhoneMap leaves, unless the write
\* failed, a mapping file whose content is the whole map of after the step.
C9_WriteThrough ==
  [][(lidToPhoneMap' # lidToPhoneMap /\ "error:save-failed" \notin logs')
       => /\ disk'.mapFile # NoFile
          /\ LoadLidMapping(EmptyMap, disk'.mapFile) = lidToPhoneMap']_vars

\* after a logout reset deleted the file, a resolution wrote it again with
\* the whole map: the entry loaded at startup and at least one learned since
C9_Witness ==
  /\ WasLoggedOut
  /\ disk.mapFile # NoFile
  /\ LoadLidMapping(EmptyMap, disk.mapFile) = lidToPhoneMap
  /\ MapHas(lidToPhoneMap, A8)
  /\ Cardinality(DOMAIN lidToPhoneMap) >= 2

(***************************************************************************)
(* Claims about the message pipeline                                       *)
(***************************************************************************)
\* the handler invocations that this step moved away from their position
Left(h) == CopiesIn(h, handlers') < CopiesIn(h, handlers)

\* s consists of white space only
Blank(s) == \A i \in 1..Len(s) : IsSpace(s[i])

\* s holds a run of exactly six digits with no word character next to it
StandaloneCode(s) ==
  \E i \in 1..Len(s) :
     /\ i + 5 <= Len(s)
     /\ \A k \in 0..5 : IsDigit(s[i + k])
     /\ i = 1 \/ ~IsWord(s[i - 1])
     /\ i + 5 = Len(s) \/ ~IsWord(s[i + 6])

\* b is s without its leading and trailing white space
IsTrimOf(b, s) ==
  /\ b = <<>> \/ (~IsSpace(b[1]) /\ ~IsSpace(b[Len(b)]))
  /\ \E i \in 0..Len(s) :
        /\ i + Len(b) <= Len(s)
        /\ b = SubSeq(s, i + 1, i + Len(b))
        /\ \A k \in 1..i : IsSpace(s[k])
        /\ \A k \in (i + Len(b) + 1)..Len(s) : IsSpace(s[k])

\* f is the address a without its domain tag, if it has one
IsWithoutDomain(f, a) ==
  /\ \A k \in 1..Len(f) : f[k] # "@"
  /\ Len(f) <= Len(a)
  /\ f = SubSeq(a, 1, Len(f))
  /\ Len(f) = Len(a) \/ a[Len(f) + 1] = "@"

\* the conditions under which the message of h is to be forwarded
Eligible(h) ==
  /\ h.msg.hasMessage
  /\ h.msg.remoteJid # None /\ h.msg.remoteJid # <<>>
  /\ h.phone # None
  /\ ~Blank(ExtractText(h.msg))
  /\ StandaloneCode(ExtractText(h.msg))

\* C6: a message is forwarded if and only if it has content, has a sender
\* identifier, was resolved to an address (not Skip), and its extracted text
\* is not blank and holds a standalone 6-digit token; the request carries the
\* address without domain tag and the trimmed text.  A message the loop skips
\* at once has no content or no sender, and is never forwarded.
C6_ForwardIffEligible ==
  [][\A h \in BagToSet(handlers) :
       /\ (h.pc = "resolved" /\ Left(h)) =>
            IF Eligible(h)
              THEN \E h2 \in BagToSet(handlers') :
                      /\ handlers' = Becomes(h, h2)
                      /\ h2.pc = "posting"
                      /\ h2.msg = h.msg /\ h2.phone = h.phone
                      /\ IsWithoutDomain(h2.req.from, h.phone)
                      /\ IsTrimOf(h2.req.body, ExtractText(h.msg))
              ELSE NextIteration(h)
       /\ (h.pc = "skipped" /\ Left(h)) =>
            /\ ~h.msg.hasMessage \/ h.msg.remoteJid \in {None, <<>>}
            /\ NextIteration(h)]_vars

\* a request in flight whose sender lost a domain tag and whose body lost
\* white space around the text
C6_Witness ==
  \E h \in BagToSet(handlers) :
     /\ h.pc = "posting"
     /\ h.req.from # h.phone
     /\ h.req.body # ExtractText(h.msg)
     /\ h.req.body # <<>>

\* jid carries the tag as its last domain
TaggedAs(jid, tag) ==
  /\ jid # None /\ Len(jid) >= 2
  /\ <<jid[Len(jid) - 1], jid[Len(jid)]>> = tag

\* C7: a call of resolveToPhone for an identifier tagged as group or
\* broadcast returns Skip, and leaves the cache as it was.
C7_GroupsAreSkipped ==
  [][\A h \in BagToSet(handlers') :
       (/\ Arrived(h) /\ h.pc = "resolved"
        /\ TaggedAs(h.msg.remoteJid, GroupTag)
             \/ TaggedAs(h.msg.remoteJid, BroadcastTag))
          => h.phone = None /\ lidToPhoneMap' = lidToPhoneMap]_vars

\* a broadcast message was skipped although the cache held its local part
\* and its alternate address was a canonical one
C7_Witness ==
  \E h \in BagToSet(handlers) :
     /\ h.pc = "resolved" /\ h.phone = None
     /\ h.msg.remoteJid = Jid(A7, BroadcastTag)
     /\ MapHas(lidToPhoneMap, A7) /\ Truthy(lidToPhoneMap[A7])
     /\ h.msg.remoteJidAlt = Jid(P1, PhoneTag)

\* the candidates of a message in the order the resolver tries them: the
\* alternate address of the key, the participant (that of the key if there
\* is one, else that of the message), the quoted participant of the reply
Candidates(msg) ==
  << msg.remoteJidAlt,
     IF msg.keyParticipant \in {None, <<>>} THEN msg.participant
                                            ELSE msg.keyParticipant,
     msg.ctxParticipant >>

\* c is a non-empty numeric portion followed by the canonical tag
Qualifies(c) == TaggedAs(c, PhoneTag) /\ Len(c) > 2

NumericPortion(c) == SubSeq(c, 1, Len(c) - 2)

\* C8: a call of resolveToPhone for A@lid with no cache entry for A returns
\* the numeric portion of the first candidate that qualifies, and the cache
\* then holds A -> that portion (and is otherwise as before).
C8_FirstCandidateWins ==
  [][\A h \in BagToSet(handlers') :
       (/\ Arrived(h) /\ h.pc = "resolved"
        /\ TaggedAs(h.msg.remoteJid, LidTag) /\ Len(h.msg.remoteJid) > 2
        /\ ~MapHas(lidToPhoneMap, NumericPortion(h.msg.remoteJid)))
          => LET A == NumericPortion(h.msg.remoteJid)
                 c == Candidates(h.msg)
                 q == {i \in 1..3 : Qualifies(c[i])}
             IN  q # {} =>
                   LET first == CHOOSE i \in q : \A j \in q : i <= j
                   IN  /\ h.phone = NumericPortion(c[first])
                       /\ lidToPhoneMap' =
                            MapSet(lidToPhoneMap, A, NumericPortion(c[first]))]_vars

\* alias 7 was resolved from the participant of the message: the alternate
\* address did not qualify, the quoted participant would have
C8_Witness ==
  \E h \in BagToSet(handlers) :
     /\ h.pc = "resolved"
     /\ h.msg.remoteJid = Jid(A7, LidTag)
     /\ ~Qualifies(h.msg.remoteJidAlt) /\ h.msg.remoteJidAlt # None
     /\ h.msg.keyParticipant = None
     /\ Qualifies(h.msg.participant)
     /\ Qualifies(h.msg.ctxParticipant)
     /\ h.phone = NumericPortion(h.msg.participant)
     /\ MapHas(lidToPhoneMap, A7) /\ lidToPhoneMap[A7] = h.phone

(***************************************************************************)
(* Claims about lid-phone-map.json                                         *)
(***************************************************************************)
\* C10: after saveLidMapping has written a map M and the startup load has run
\* on an empty map, the map is M: the same keys with the same values.
C10_RoundTrip ==
  ("info:loaded" \in logs /\ saved # NoSave) =>
     /\ DOMAIN lidToPhoneMap = DOMAIN saved
     /\ \A k \in DOMAIN saved : lidToPhoneMap[k] = saved[k]

\* a map of three entries, one of them with a two-digit alias and one with a
\* two-digit address, came back from the file
C10_Witness ==
  /\ "info:loaded" \in logs /\ saved # NoSave
  /\ DOMAIN lidToPhoneMap = RTKeys
  /\ lidToPhoneMap[A7] # lidToPhoneMap[A8]
  /\ lidToPhoneMap[<<"7", "8">>] = <<"1", "2">>

(***************************************************************************)
(* Claims about failures                                                   *)
(***************************************************************************)
\* C11: a resolution whose write of lid-phone-map.json fails still returns
\* the address and leaves the new entry in lidToPhoneMap (the file stays as
\* it was); and every call for an alias that lidToPhoneMap holds returns the
\* address held there, whatever the file holds.
C11_SaveFailureKeepsEntry ==
  /\ [][\A h \in BagToSet(handlers') :
          (/\ Arrived(h) /\ h.pc = "resolved"
           /\ "error:save-failed" \in logs')
             => /\ h.phone # None
                /\ disk' = disk
                /\ \E k \in DOMAIN lidToPhoneMap' :
                      /\ ~MapHas(lidToPhoneMap, k)
                      /\ lidToPhoneMap' = MapSet(lidToPhoneMap, k, h.phone)
                      /\ \/ h.msg.remoteJid = Jid(k, LidTag)
                         \/ h.msg.ctxParticipant = Jid(k, LidTag)]_vars
  /\ [][\A h \in BagToSet(handlers') :
          (/\ Arrived(h) /\ h.pc = "resolved"
           /\ TaggedAs(h.msg.remoteJid, LidTag)
           /\ MapHas(lidToPhoneMap, NumericPortion(h.msg.remoteJid))
           /\ Truthy(lidToPhoneMap[NumericPortion(h.msg.remoteJid)]))
             => h.phone = lidToPhoneMap[NumericPortion(h.msg.remoteJid)]]_vars

\* alias 7 is in the map but no write that held it has succeeded, and a later
\* message from alias 7 without any candidate was resolved to its address
C11_Witness ==
  /\ ~WasLoggedOut
  /\ MapHas(lidToPhoneMap, A7)
  /\ saved = NoSave \/ ~MapHas(saved, A7)
  /\ disk.mapFile = Stringify(MapSet(EmptyMap, A8, P2))
  /\ \E h \in BagToSet(handlers) :
       /\ h.pc = "resolved"
       /\ h.msg.remoteJid = Jid(A7, LidTag)
       /\ h.msg.remoteJidAlt = None /\ h.msg.participant = None
       /\ h.phone = lidToPhoneMap[A7]

\* C12: when the POST of a message settles, failed or not, the loop goes on
\* to the next message of the batch or the invocation ends: the message is
\* not posted again.  A POST is only ever started by the iteration that
\* resolved its message, so each iteration of the loop posts at most once; a
\* failure changes nothing but the log.
C12_NoRetryNoBlock ==
  /\ [][\A h \in BagToSet(handlers) :
          (h.pc = "posting" /\ Left(h))
             => /\ NextIteration(h)
                /\ UNCHANGED <<lidToPhoneMap, disk, socks, starts, timers>>]_vars
  /\ [][("error:forward-failed" \in logs')
          => \E h \in BagToSet(handlers) :
                h.pc = "posting" /\ Left(h) /\ NextIteration(h)]_vars
  /\ [][\A h2 \in BagToSet(handlers') :
          (Arrived(h2) /\ h2.pc = "posting")
             => \E h \in BagToSet(handlers) :
                   /\ h.pc = "resolved" /\ h.msg = h2.msg
                   /\ handlers' = Becomes(h, h2)]_vars

\* a POST has just failed and its invocation is at the top of the loop, about
\* to take the next message of the batch
C12_Witness ==
  /\ logs = {"error:forward-failed"}
  /\ handlers = One(NewHandler)

(***************************************************************************)
(* Claims about deferred actions and session objects                       *)
(***************************************************************************)
\* this step is a tick of a keepalive interval
Ticked == pinged' # pinged

\* the session of socket p has been replaced
Replaced(p) ==
  \/ ChildrenOf(p) # {}
  \/ \E s \in starts : s.parent = p

\* C13: a tick of the keepalive interval of a session pings the socket of
\* that session and no other, gets nothing out once that session is closed,
\* and changes nothing else; a ping that goes out goes to a live session.  A
\* reconnect timer is pending only as long as the session it was set for has
\* not been replaced.
C13_StaleTimersAreInert ==
  /\ [][Ticked =>
          /\ pinged'.target = pinged'.timer
          /\ socks[pinged'.timer].status = "closed" => ~pinged'.sent
          /\ pinged'.sent => Live(pinged'.target)
          /\ UNCHANGED <<rev, lidToPhoneMap, disk, socks, starts, timers,
                         logouts, handlers, returned, saved, proc>>]_vars
  /\ [](\A t \in timers : ~Replaced(t.parent))

\* the interval of the first session ticked after a later session was opened
C13_Witness ==
  /\ pinged.timer = 1 /\ ~pinged.sent
  /\ Len(socks) >= 2
  /\ socks[1].status = "closed"
  /\ socks[Len(socks)].status = "open"

Driven == {i \in Socks : socks'[i] # socks[i]}

\* C15: a start() that gets to makeWASocket adds a new socket, in state
\* connecting, with the three handlers bound to it, and leaves every earlier
\* socket as it is.  No step changes more than one socket or a closed one;
\* a credentials write is that of the hook of a live socket (its own auth
\* state), a logout is called on the socket whose close is being handled,
\* and a keepalive tick pings the socket of its own start().
C15_NewSessionObject ==
  /\ [][(\E s \in starts : s.stage = "version" /\ s \notin starts')
          => /\ Len(socks') = Len(socks) + 1
             /\ SubSeq(socks', 1, Len(socks)) = socks
             /\ socks'[Len(socks')].status = "connecting"
             /\ socks'[Len(socks')].on = Events]_vars
  /\ [][/\ Len(socks') >= Len(socks)
        /\ Cardinality(Driven) <= 1
        /\ \A i \in Driven : socks[i].status # "closed"
        /\ (disk'.creds # disk.creds /\ disk'.creds # NoCreds)
             => \E i \in Driven : Live(i) /\ socks'[i].auth = disk'.creds
        /\ \A i \in logouts' \ logouts :
             i \in Driven /\ socks'[i].status = "closed"
        /\ Ticked => pinged'.target = pinged'.timer]_vars
  /\ [](\A i \in Socks : Live(i) => socks[i].on = Events)

\* the third session object of a run: its two predecessors are closed, one
\* by a logout and one otherwise, and it is open with its handlers bound
C15_Witness ==
  /\ Len(socks) = 3
  /\ ClosedWith(1, "loggedOut") \/ ClosedWith(2, "loggedOut")
  /\ ClosedWith(1, "other") \/ ClosedWith(2, "other")
  /\ socks[3].status = "open" /\ socks[3].on = Events
  /\ socks[3].parent = 2

\* C16 as claimed: once a start() has failed, the failure has been reported
\* (by the listener's logger or by the runtime) and the process has exited
\* with a non-zero status.
C16_Original ==
  proc.failed => (proc.logged # "none" /\ ~proc.alive /\ proc.code # 0)

\* C16, what the code does: only a failure of the first start() is logged by the
\* listener, and only in wa-listener.js does the process then exit with
\* status 1; in wa-listener.ts it ends with status 0.  Every other failure
\* is left to the runtime: status 1 if it throws on unhandled rejections,
\* no exit status otherwise.
C16_FailureOutcomes ==
  proc.failed =>
     /\ proc.logged # "none"
     /\ proc.logged = "app" <=> (socks = <<>> /\ rev # "part0")
     /\ proc.logged = "app" => (~proc.alive
                                /\ proc.code = IF rev = "js" THEN 1 ELSE 0)
     /\ proc.alive => (socks # <<>> /\ proc.logged = "runtime")
     /\ proc.code # 0 => (~proc.alive /\ proc.code = 1)

\* the first start() of wa-listener.ts failed and was logged, and the
\* process ended with status 0
C16_Witness ==
  /\ rev \in TsRevs /\ proc.failed /\ proc.logged = "app"
  /\ ~proc.alive /\ proc.code = 0

(***************************************************************************)
(* Claims about the branches of resolveToPhone                             *)
(***************************************************************************)
\* jid is A@lid with a non-empty alias token A
IsAliasJid(jid) == TaggedAs(jid, LidTag) /\ Len(jid) > 2

\* jid is P@s.whatsapp.net with a non-empty address P
IsDirectJid(jid) == Qualifies(jid)

NoCandidate(msg) == \A i \in 1..3 : ~Qualifies(Candidates(msg)[i])

\* C17: a call for A@lid with no cache entry for A and no qualifying
\* candidate returns A, logs an error, and leaves the map and the file as
\* they are (so A stays unresolved for later messages); and a message
\* resolved to its own alias token is forwarded with from = A when its text
\* passes the filters.
C17_UnresolvedAliasFallback ==
  /\ [][\A h \in BagToSet(handlers') :
          (/\ Arrived(h) /\ h.pc = "resolved"
           /\ IsAliasJid(h.msg.remoteJid)
           /\ ~MapHas(lidToPhoneMap, NumericPortion(h.msg.remoteJid))
           /\ NoCandidate(h.msg))
             => /\ h.phone = NumericPortion(h.msg.remoteJid)
                /\ "error:unresolved-lid" \in logs'
                /\ lidToPhoneMap' = lidToPhoneMap
                /\ disk' = disk]_vars
  /\ [][\A h \in BagToSet(handlers) :
          (/\ h.pc = "resolved" /\ Left(h)
           /\ IsAliasJid(h.msg.remoteJid)
           /\ h.phone = NumericPortion(h.msg.remoteJid)
           /\ ~Blank(ExtractText(h.msg))
           /\ StandaloneCode(ExtractText(h.msg)))
             => \E h2 \in BagToSet(handlers') :
                   /\ handlers' = Becomes(h, h2)
                   /\ h2.pc = "posting"
                   /\ h2.req.from = NumericPortion(h.msg.remoteJid)]_vars

\* a message from alias 7, which the cache does not hold, is being posted
\* with the alias token as its sender; its alternate address and its quoted
\* participant were present but did not qualify
C17_Witness ==
  /\ ~MapHas(lidToPhoneMap, A7)
  /\ \E h \in BagToSet(handlers) :
       /\ h.pc = "posting"
       /\ h.msg.remoteJid = Jid(A7, LidTag)
       /\ h.msg.remoteJidAlt = Jid(A8, LidTag)
       /\ h.msg.ctxParticipant = Jid(<<>>, PhoneTag)
       /\ h.req.from = A7

\* C18: a call for P@s.whatsapp.net returns P.  If the quoted participant of
\* the reply context is L@lid and the map has no entry for L, the map gains
\* L -> P and nothing else; in every other case the map is left as it is.
C18_DirectSenderLinks ==
  [][\A h \in BagToSet(handlers') :
       (Arrived(h) /\ h.pc = "resolved" /\ IsDirectJid(h.msg.remoteJid))
          => LET P == NumericPortion(h.msg.remoteJid)
                 q == h.msg.ctxParticipant
             IN  /\ h.phone = P
                 /\ lidToPhoneMap' =
                      IF IsAliasJid(q) /\ ~MapHas(lidToPhoneMap, NumericPortion(q))
                        THEN MapSet(lidToPhoneMap, NumericPortion(q), P)
                        ELSE lidToPhoneMap]_vars

\* address 1 replied to alias 7, which the cache held with another address
\* and still holds so, after it had replied to alias 8 and was linked to it
C18_Witness ==
  /\ MapHas(lidToPhoneMap, A7) /\ lidToPhoneMap[A7] = P2
  /\ MapHas(lidToPhoneMap, A8) /\ lidToPhoneMap[A8] = P1
  /\ \E h \in BagToSet(handlers) :
       /\ h.pc = "resolved"
       /\ h.msg.remoteJid = Jid(P1, PhoneTag)
       /\ h.msg.ctxParticipant = Jid(A7, LidTag)
       /\ h.phone = P1

\* C19: a step changes lidToPhoneMap or lid-phone-map.json only if it is a
\* call of resolveToPhone for a canonical sender whose reply context quotes an
\* alias that the map does not hold, or for an alias that the map does not
\* hold with a qualifying candidate; the file changes only together with the
\* map.  Every other call, and every other step of the handler, leaves both.
C19_CacheFrame ==
  [][(lidToPhoneMap' # lidToPhoneMap \/ disk'.mapFile # disk.mapFile)
       => /\ lidToPhoneMap' # lidToPhoneMap
          /\ \E h \in BagToSet(handlers') :
                /\ Arrived(h) /\ h.pc = "resolved"
                /\ \/ /\ IsDirectJid(h.msg.remoteJid)
                      /\ IsAliasJid(h.msg.ctxParticipant)
                      /\ ~MapHas(lidToPhoneMap,
                                 NumericPortion(h.msg.ctxParticipant))
                   \/ /\ IsAliasJid(h.msg.remoteJid)
                      /\ ~MapHas(lidToPhoneMap, NumericPortion(h.msg.remoteJid))
                      /\ ~NoCandidate(h.msg)]_vars

\* the file is behind the map (a write had failed), and a call for the
\* cached alias 7, with a qualifying candidate, was answered from the cache
C19_Witness ==
  /\ MapHas(lidToPhoneMap, A7)
  /\ disk.mapFile = NoFile
  /\ \E h \in BagToSet(handlers) :
       /\ h.pc = "resolved"
       /\ h.msg.remoteJid = Jid(A7, LidTag)
       /\ h.msg.remoteJidAlt = Jid(P1, PhoneTag)
       /\ h.msg.ctxParticipant = Jid(P4, PhoneTag)
       /\ h.phone = P4

(***************************************************************************)
(* Claims about the number of sessions                                     *)
(***************************************************************************)
\* what the close of socket p has led to so far: sockets made, calls of
\* start() under way, reconnect timers pending, a logout() pending
Successors(p) ==
  Cardinality(ChildrenOf(p))
    + Cardinality({s \in starts : s.parent = p})
    + Cardinality({t \in timers : t.parent = p})
    + (IF p \in logouts THEN 1 ELSE 0)

Pending == Cardinality(starts) + Cardinality(timers) + Cardinality(logouts)

LiveSocks == {i \in Socks : Live(i)}

====
